---- MODULE Spec2Model ----
(***************************************************************************)
(* Forwarder resolution and log / UDM ingestion of secops.chronicle        *)
(* (src/src/secops/chronicle/log_ingest.py) as a state machine.            *)
(*                                                                         *)
(* Python strings that the code parses (forwarder resource names, response *)
(* bodies) are sequences of one-character strings.  Strings that the code  *)
(* only compares or embeds (display names, message fragments) are TLA+     *)
(* strings.  The backend behind client.session is the environment: it      *)
(* holds the forwarders and answers each request, possibly with a fault.   *)
(***************************************************************************)
EXTENDS Integers, Sequences, FiniteSets, TLC

VARIABLES
    forwarders,   \* the backend's forwarders, in the order it lists them
    cache,        \* client._cached_default_forwarder_id
    last,         \* the last completed call: operation, arguments, outcome, requests
    ref,          \* the same get_or_create_forwarder call, started with an empty cache slot
    pc,           \* concurrent callers: position of each caller in get_or_create_forwarder
    loc           \* concurrent callers: local variables of each caller

vars == <<forwarders, cache, last, ref, pc, loc>>

-----------------------------------------------------------------------------
(* Bounds *)

MaxForwarders == 2
MaxPages == 2
MaxProcs == 2

-----------------------------------------------------------------------------
(* Values *)

\* Python None and "" for string-valued slots: both are falsy in the code's tests.
None == <<>>

\* client._default_forwarder_display_name
DefaultName == "Wrapper-SDK-Forwarder"
OtherName == "Other-Forwarder"
\* A display name that contains the word the permission test looks for.
PermName == "Permission-Audit-Forwarder"
\* display_name=None (or ""): `display_name or default` takes the default.
NoName == ""

DisplayNames == {DefaultName, OtherName, PermName}

\* Resource names the backend may give a forwarder: a full path, a bare ID,
\* and a malformed name, which extract_forwarder_id rejects.
NameA == <<"f", "/", "a">>
NameB == <<"b">>
NameSlash == <<"/">>
Names == {NameA, NameB, NameSlash}

NoForwarder == [name |-> <<>>, displayName |-> ""]

-----------------------------------------------------------------------------
(* extract_forwarder_id *)

\* str.split("/"): cur is the segment being read.
RECURSIVE Split(_, _)
Split(s, cur) ==
    IF s = <<>> THEN <<cur>>
    ELSE IF Head(s) = "/" THEN <<cur>> \o Split(Tail(s), <<>>)
    ELSE Split(Tail(s), Append(cur, Head(s)))

HasSlash(s) == \E i \in 1..Len(s) : s[i] = "/"

NonEmptySegments(segs) == SelectSeq(segs, LAMBDA x : x # <<>>)

\* Mutant: the first segment is taken, not the last.
ExtractFirst(forwarder_name) ==
    IF forwarder_name = <<>>
    THEN [ok |-> FALSE, id |-> <<>>, msg |-> <<"Forwarder name cannot be empty">>]
    ELSE IF NonEmptySegments(Split(forwarder_name, <<>>)) = <<>>
    THEN [ok |-> FALSE, id |-> <<>>, msg |-> <<"Invalid forwarder name format: ">>]
    ELSE [ok |-> TRUE, id |-> NonEmptySegments(Split(forwarder_name, <<>>))[1],
          msg |-> <<>>]

\* Mutant: the resource name is taken for the ID as it is.
ExtractWhole(forwarder_name) == [ok |-> TRUE, id |-> forwarder_name, msg |-> <<>>]

extract_forwarder_id(forwarder_name) ==
    IF forwarder_name = <<>>
    THEN [ok |-> FALSE, id |-> <<>>, msg |-> <<"Forwarder name cannot be empty">>]
    ELSE IF ~HasSlash(forwarder_name)
    THEN [ok |-> TRUE, id |-> forwarder_name, msg |-> <<>>]
    ELSE LET segments == NonEmptySegments(Split(forwarder_name, <<>>))
         IN IF segments = <<>>
            THEN [ok |-> FALSE, id |-> <<>>,
                  msg |-> <<"Invalid forwarder name format: ">>]
            ELSE [ok |-> TRUE, id |-> segments[Len(segments)], msg |-> <<>>]

-----------------------------------------------------------------------------
(* The backend behind client.session *)

Faults == {"none", "err", "perm"}

FaultStatus(fault) == IF fault = "perm" THEN 403 ELSE 500
FaultText(fault) == IF fault = "perm" THEN "PERMISSION_DENIED" ELSE "internal error"

\* The short ID under which the backend serves a forwarder: the last segment
\* of its resource name (a forwarder with a malformed name has none).
ServerId(f) == extract_forwarder_id(f.name).id

\* str(forwarder_id) in the URL: None is sent as the text None.
UrlId(id) == IF id = None THEN <<"N", "o", "n", "e">> ELSE id

\* GET .../forwarders/{id}
SessionGetForwarder(fwds, id, fault) ==
    IF fault # "none"
    THEN [status |-> FaultStatus(fault), text |-> FaultText(fault), json |-> NoForwarder]
    ELSE IF \E i \in 1..Len(fwds) : ServerId(fwds[i]) = UrlId(id)
    THEN LET i == CHOOSE j \in 1..Len(fwds) : ServerId(fwds[j]) = UrlId(id)
         IN [status |-> 200, text |-> "", json |-> fwds[i]]
    ELSE [status |-> 404, text |-> "NOT_FOUND", json |-> NoForwarder]

\* POST .../forwarders: answer = [fault, name]; the backend names the new forwarder.
SessionPostForwarder(fwds, display_name, answer) ==
    IF answer.fault # "none"
    THEN [status |-> FaultStatus(answer.fault), text |-> FaultText(answer.fault),
          json |-> NoForwarder, fwds |-> fwds]
    ELSE LET f == [name |-> answer.name, displayName |-> display_name]
         IN [status |-> 200, text |-> "", json |-> f, fwds |-> Append(fwds, f)]

\* A request as the session saw it, with the status and the text of its response.
Request(req, arg, status, text) ==
    [req |-> req, arg |-> arg, status |-> status, text |-> text]

-----------------------------------------------------------------------------
(* create_forwarder, get_forwarder *)

create_forwarder(fwds, display_name, answer) ==
    LET response == SessionPostForwarder(fwds, display_name, answer)
        log == <<Request("create", display_name, response.status, response.text)>>
    IN IF response.status # 200
       THEN [out |-> "APIError", val |-> NoForwarder,
             msg |-> <<"Failed to create forwarder: ", response.text>>,
             fwds |-> response.fwds, log |-> log]
       ELSE [out |-> "return", val |-> response.json, msg |-> <<>>,
             fwds |-> response.fwds, log |-> log]

get_forwarder(fwds, forwarder_id, fault) ==
    LET response == SessionGetForwarder(fwds, forwarder_id, fault)
        log == <<Request("get", UrlId(forwarder_id), response.status, response.text)>>
    IN IF response.status # 200
       THEN [out |-> "APIError", val |-> NoForwarder,
             msg |-> <<"Failed to get forwarder: ", response.text>>, log |-> log]
       ELSE [out |-> "return", val |-> response.json, msg |-> <<>>, log |-> log]

-----------------------------------------------------------------------------
(* list_forwarders *)

\* A page the backend serves: status and error text, whether the body has a
\* "forwarders" key and its items, and its "nextPageToken" ("absent", "empty"
\* for a key holding an empty token, "present").
Page(status, text, has, fwd, tok) ==
    [status |-> status, text |-> text, has |-> has, fwd |-> fwd, tok |-> tok]

MaxPageSize == 1000
MinPageSize == 1
DefaultPageSize == 50
FindPageSize == 1000

Min(a, b) == IF a < b THEN a ELSE b
Max(a, b) == IF a > b THEN a ELSE b

\* params of one page request: pageSize is sent only for a truthy page_size,
\* pageToken only for a truthy token (index > 1: the token of the page before).
ListParams(page_size, index) ==
    [hasSize |-> page_size # 0,
     pageSize |-> IF page_size # 0 THEN Min(MaxPageSize, Max(MinPageSize, page_size)) ELSE 0,
     page |-> index]

ListResult(out, has, fwd, tok, msg, log) ==
    [out |-> out, has |-> has, fwd |-> fwd, tok |-> tok, msg |-> msg, log |-> log]

\* pages: the chain the backend serves from the requested page on.
RECURSIVE list_forwarders(_, _, _)
list_forwarders(pages, page_size, index) ==
    LET response == Head(pages)
        log == <<Request("list", ListParams(page_size, index), response.status,
                         response.text)>>
    IN IF response.status # 200
       THEN ListResult("APIError", FALSE, <<>>, "absent",
                       <<"Failed to list forwarders: ", response.text>>, log)
       ELSE IF response.tok = "present"
       THEN LET next_page == list_forwarders(Tail(pages), page_size, index + 1)
                all == log \o next_page.log
            IN IF next_page.out # "return"
               THEN [next_page EXCEPT !.log = all]
               ELSE IF next_page.has /\ next_page.fwd # <<>>
               THEN IF ~response.has
                    THEN ListResult("KeyError", FALSE, <<>>, "present",
                                    <<"forwarders">>, all)
                    ELSE ListResult("return", TRUE, response.fwd \o next_page.fwd,
                                    "absent", <<>>, all)
               ELSE ListResult("return", response.has, response.fwd, "absent", <<>>, all)
       ELSE ListResult("return", response.has, response.fwd, response.tok, <<>>, log)

\* The ways the backend may cut the list s into n consecutive pages.
RECURSIVE Splits(_, _)
Splits(s, n) ==
    IF n = 1 THEN {<<s>>}
    ELSE UNION {{<<SubSeq(s, 1, k)>> \o r : r \in Splits(SubSeq(s, k + 1, Len(s)), n - 1)} :
                k \in 0..Len(s)}

\* The page chains the backend may serve for the forwarders fwds: every page
\* but the last carries a token; an empty page may leave out the "forwarders"
\* key; the last page may fail instead of answering.
ChainsOf(sp) ==
    LET n == Len(sp)
        Keys == {h \in [1..n -> BOOLEAN] : \A i \in 1..n : sp[i] # <<>> => h[i]}
        Served(h, tok) ==
            [i \in 1..n |-> Page(200, "", h[i], sp[i], IF i < n THEN "present" ELSE tok)]
        Failed(h, fault) ==
            [i \in 1..n |->
                IF i < n THEN Page(200, "", h[i], sp[i], "present")
                ELSE Page(FaultStatus(fault), FaultText(fault), FALSE, <<>>, "absent")]
    IN {Served(h, tok) : h \in Keys, tok \in {"absent", "empty"}}
       \cup {Failed(h, fault) : h \in Keys, fault \in Faults \ {"none"}}

Chains(fwds) ==
    UNION {UNION {ChainsOf(sp) : sp \in Splits(fwds, n)} : n \in 1..MaxPages}

\* Mutant: the scan of the listed forwarders matches no display name.
FindInNone(forwarders_response, display_name) ==
    IF forwarders_response.out = "APIError"
    THEN [out |-> "APIError", found |-> FALSE, val |-> NoForwarder,
          msg |-> <<"Failed to list forwarders while searching for '", display_name, "': ">>
                  \o forwarders_response.msg,
          log |-> forwarders_response.log]
    ELSE [out |-> forwarders_response.out, found |-> FALSE, val |-> NoForwarder,
          msg |-> forwarders_response.msg, log |-> forwarders_response.log]

\* The scan of the listed forwarders, and the wrapping of a list failure.
FindIn(forwarders_response, display_name) ==
    IF forwarders_response.out = "APIError"
    THEN [out |-> "APIError", found |-> FALSE, val |-> NoForwarder,
          msg |-> <<"Failed to list forwarders while searching for '", display_name, "': ">>
                  \o forwarders_response.msg,
          log |-> forwarders_response.log]
    ELSE IF forwarders_response.out # "return"
    THEN [out |-> forwarders_response.out, found |-> FALSE, val |-> NoForwarder,
          msg |-> forwarders_response.msg, log |-> forwarders_response.log]
    ELSE LET items == IF forwarders_response.has THEN forwarders_response.fwd ELSE <<>>
             hits == {i \in 1..Len(items) : items[i].displayName = display_name}
         IN IF hits # {}
            THEN [out |-> "return", found |-> TRUE,
                  val |-> items[CHOOSE i \in hits : \A j \in hits : i <= j],
                  msg |-> <<>>, log |-> forwarders_response.log]
            ELSE [out |-> "return", found |-> FALSE, val |-> NoForwarder, msg |-> <<>>,
                  log |-> forwarders_response.log]

_find_forwarder_by_display_name(pages, display_name) ==
    FindIn(list_forwarders(pages, FindPageSize, 1), display_name)

-----------------------------------------------------------------------------
(* get_or_create_forwarder *)

\* str.lower() on the message fragments that have upper-case letters in the
\* word the test looks for; the other fragments hold no such word.
Lower(t) ==
    CASE t = "PERMISSION_DENIED" -> "permission_denied"
      [] t = PermName -> "permission-audit-forwarder"
      [] t = "Insufficient permissions to manage forwarders: " ->
             "insufficient permissions to manage forwarders: "
      [] OTHER -> t

\* "permission" in <fragment>
ContainsPermission(t) ==
    t \in {"permission_denied", "permission-audit-forwarder",
           "insufficient permissions to manage forwarders: "}

\* "permission" in str(e).lower()
HasPermission(msg) == \E i \in 1..Len(msg) : ContainsPermission(Lower(msg[i]))

\* Mutant: every APIError is re-raised as it is.
HandleAPIErrorPlain(msg) == msg

\* except APIError as e: enrich a permission error, re-raise any other
HandleAPIError(msg) ==
    IF HasPermission(msg)
    THEN <<"Insufficient permissions to manage forwarders: ">> \o msg
    ELSE msg

\* Mutant: every request is taken for a request for the default forwarder.
IsDefaultAlways(target_display_name) == TRUE

IsDefaultForwarderRequest(target_display_name) == target_display_name = DefaultName

CallResult(out, val, msg, c, fwds, log) ==
    [out |-> out, val |-> val, msg |-> msg, cache |-> c, fwds |-> fwds, log |-> log]

\* Mutant: the ID is cached whatever the display name asked for.
CacheAndReturnAlways(forwarder, c, is_default, fwds, log) ==
    IF extract_forwarder_id(forwarder.name).ok
    THEN CallResult("return", forwarder, <<>>, extract_forwarder_id(forwarder.name).id,
                    fwds, log)
    ELSE CallResult("ValueError", NoForwarder, extract_forwarder_id(forwarder.name).msg,
                    c, fwds, log)

\* Mutant: the slot is assigned the resource name before the ID is extracted.
CacheAndReturnEarly(forwarder, c, is_default, fwds, log) ==
    IF is_default
    THEN LET id == extract_forwarder_id(forwarder.name)
         IN IF id.ok
            THEN CallResult("return", forwarder, <<>>, id.id, fwds, log)
            ELSE CallResult("ValueError", NoForwarder, id.msg, forwarder.name, fwds, log)
    ELSE CallResult("return", forwarder, <<>>, c, fwds, log)

\* if is_default_forwarder_request: cache the ID of the found or created
\* forwarder; return it.
CacheAndReturn(forwarder, c, is_default, fwds, log) ==
    IF is_default
    THEN LET id == extract_forwarder_id(forwarder.name)
         IN IF id.ok
            THEN CallResult("return", forwarder, <<>>, id.id, fwds, log)
            ELSE CallResult("ValueError", NoForwarder, id.msg, c, fwds, log)
    ELSE CallResult("return", forwarder, <<>>, c, fwds, log)

\* After create_forwarder: created is its outcome.
AfterCreate(created, c, is_default, log) ==
    IF created.out = "APIError"
    THEN CallResult("APIError", NoForwarder, HandleAPIError(created.msg), c,
                    created.fwds, log \o created.log)
    ELSE CacheAndReturn(created.val, c, is_default, created.fwds, log \o created.log)

\* After _find_forwarder_by_display_name: found is its outcome.
AfterFind(found, fwds, c, target, is_default, env, log) ==
    IF found.out = "APIError"
    THEN CallResult("APIError", NoForwarder, HandleAPIError(found.msg), c, fwds,
                    log \o found.log)
    ELSE IF found.out # "return"
    THEN CallResult(found.out, NoForwarder, found.msg, c, fwds, log \o found.log)
    ELSE IF found.found
    THEN CacheAndReturn(found.val, c, is_default, fwds, log \o found.log)
    ELSE AfterCreate(create_forwarder(fwds, target, env.create), c, is_default,
                     log \o found.log)

\* The find / create part: c is the cache slot as the cached attempt left it,
\* log the requests issued so far.
FindOrCreate(fwds, c, target, is_default, env, log) ==
    AfterFind(_find_forwarder_by_display_name(env.pages, target),
              fwds, c, target, is_default, env, log)

\* Mutant: the cached forwarder is never taken.
CacheHitNever(forwarder) == FALSE

\* Mutant: the cached forwarder is taken whatever its display name.
CacheHitAnyName(forwarder) == forwarder.out = "return"

\* The cached attempt: forwarder is the outcome of get_forwarder for the cached ID.
CacheHit(forwarder) ==
    forwarder.out = "return" /\ forwarder.val.displayName = DefaultName

\* Mutant: the cache slot is not emptied when the cached forwarder is not taken.
AfterGetKeepsCache(forwarder, fwds, cached, target, env) ==
    IF CacheHit(forwarder)
    THEN CallResult("return", forwarder.val, <<>>, cached, fwds, forwarder.log)
    ELSE FindOrCreate(fwds, cached, target, TRUE, env, forwarder.log)

AfterGet(forwarder, fwds, cached, target, env) ==
    IF CacheHit(forwarder)
    THEN CallResult("return", forwarder.val, <<>>, cached, fwds, forwarder.log)
    ELSE FindOrCreate(fwds, None, target, TRUE, env, forwarder.log)

Target(display_name) == IF display_name # NoName THEN display_name ELSE DefaultName

\* env: how the backend answers this call's requests: env.get the fault of
\* the get-by-ID, env.pages the page chain of the list, env.create the
\* fault of the create and the name given to the created forwarder.
Resolve(fwds, cached, target_display_name, env) ==
    IF IsDefaultForwarderRequest(target_display_name) /\ cached # None
    THEN AfterGet(get_forwarder(fwds, cached, env.get), fwds, cached,
                  target_display_name, env)
    ELSE FindOrCreate(fwds, cached, target_display_name,
                      IsDefaultForwarderRequest(target_display_name), env, <<>>)

get_or_create_forwarder(fwds, cached, display_name, env) ==
    Resolve(fwds, cached, Target(display_name), env)

-----------------------------------------------------------------------------
(* Response bodies: response.text, str.strip(), response.json() *)

MaxBodyLen == 3
BodyChars == {" ", "{", "}", "1"}
Bodies == UNION {[1..n -> BodyChars] : n \in 0..MaxBodyLen}

RECURSIVE LStrip(_)
LStrip(s) == IF s # <<>> /\ Head(s) = " " THEN LStrip(Tail(s)) ELSE s

RECURSIVE RStrip(_)
RStrip(s) ==
    IF s # <<>> /\ s[Len(s)] = " " THEN RStrip(SubSeq(s, 1, Len(s) - 1)) ELSE s

\* str.strip()
Strip(s) == RStrip(LStrip(s))

\* A Python dict as the import calls return it: empty, or holding the one
\* key raw_response.
EmptyDict == [kind |-> "dict", has_raw |-> FALSE, raw_response |-> <<>>]
RawDict(text) == [kind |-> "dict", has_raw |-> TRUE, raw_response |-> text]
Number(digits) == [kind |-> "number", has_raw |-> FALSE, raw_response |-> digits]

\* json.loads on the documents of BodyChars: white space around a value is
\* skipped; a value is a number (digits) or an object {} (white space allowed
\* between the braces); anything else is a decode error (a ValueError).
JsonLoadsStripped(t) ==
    IF t # <<>> /\ \A i \in 1..Len(t) : t[i] = "1"
    THEN [ok |-> TRUE, val |-> Number(t)]
    ELSE IF /\ Len(t) >= 2 /\ t[1] = "{" /\ t[Len(t)] = "}"
            /\ \A i \in 2..(Len(t) - 1) : t[i] = " "
    THEN [ok |-> TRUE, val |-> EmptyDict]
    ELSE [ok |-> FALSE, val |-> EmptyDict]

JsonLoads(text) == JsonLoadsStripped(Strip(text))

Statuses == {200, 201, 299, 300, 399, 400, 500}

-----------------------------------------------------------------------------
(* ingest_log *)

KnownLogTypes == {"OKTA"}
LogTypes == {"OKTA", "NOT_A_LOG_TYPE"}

is_valid_log_type(log_type) == log_type \in KnownLogTypes

\* datetime values: t is the clock reading, aware whether tzinfo is set; none is None.
MaxTime == 2
NoneTime == [none |-> TRUE, t |-> 0, aware |-> FALSE]
DateTime(t, aware) == [none |-> FALSE, t |-> t, aware |-> aware]
DateTimes == {DateTime(t, aware) : t \in 0..MaxTime, aware \in BOOLEAN}

\* datetime.now(): a naive datetime
Now(t) == DateTime(t, FALSE)

\* strftime("%Y-%m-%dT%H:%M:%S.%fZ"): the clock reading with a literal Z, whatever tzinfo is.
Strftime(dt) == [reading |-> dt.t, suffix |-> "Z"]

\* forwarder_id argument: none is None, else the string id.
NoneId == [none |-> TRUE, id |-> <<>>]
GivenId(id) == [none |-> FALSE, id |-> id]

\* client.instance_id + "/forwarders/"
InstanceForwarders == <<"i", "/", "f", "/">>

ForwarderResource(forwarder_id) ==
    IF ~HasSlash(forwarder_id) THEN InstanceForwarders \o forwarder_id ELSE forwarder_id

\* log_message: a single string or a list of strings, made a list.
LogMessages(log_message) == IF log_message.single THEN <<log_message.msg>> ELSE log_message.msgs

\* base64.b64encode(msg.encode("utf-8")).decode("utf-8"), kept symbolic
Base64(msg) == [b64 |-> msg]

Logs(log_messages, log_entry_time_str, collection_time_str) ==
    [i \in 1..Len(log_messages) |->
        [data |-> Base64(log_messages[i]), log_entry_time |-> log_entry_time_str,
         collection_time |-> collection_time_str]]

\* Mutant: only a status outside 200..299 fails.
ImportFailedNon2xx(status) == status < 200 \/ status > 299

\* if response.status_code != 200
ImportFailed(status) == status # 200

\* The import POST and the check of its response; s is the call so far
\* (cache, fwds, log).
ImportLogs(forwarder_id, s, a, log_entry_time, collection_time, response) ==
    LET payload == [logs |-> Logs(LogMessages(a.log_message), Strftime(log_entry_time),
                                  Strftime(collection_time)),
                    forwarder |-> ForwarderResource(forwarder_id)]
        log == Append(s.log, Request("import",
                                     [log_type |-> a.log_type, payload |-> payload],
                                     response.status, response.body))
    IN IF ImportFailed(response.status)
       THEN CallResult("APIError", EmptyDict,
                       <<"Failed to ingest log: ", response.body>>, s.cache, s.fwds, log)
       ELSE IF JsonLoads(response.body).ok
       THEN CallResult("return", JsonLoads(response.body).val, <<>>, s.cache, s.fwds, log)
       ELSE CallResult("ValueError", EmptyDict, <<"JSONDecodeError">>, s.cache, s.fwds, log)

\* forwarder = get_or_create_forwarder(client); forwarder_id = extract_forwarder_id(...)
WithDefaultForwarder(g, a, log_entry_time, collection_time, response) ==
    IF g.out # "return"
    THEN [g EXCEPT !.val = EmptyDict]
    ELSE IF ~extract_forwarder_id(g.val.name).ok
    THEN CallResult("ValueError", EmptyDict, extract_forwarder_id(g.val.name).msg,
                    g.cache, g.fwds, g.log)
    ELSE ImportLogs(extract_forwarder_id(g.val.name).id, g, a, log_entry_time,
                    collection_time, response)

\* collection_time < log_entry_time, for two datetimes that compare
Earlier(collection_time, log_entry_time) == collection_time.t < log_entry_time.t

\* From the timestamp check on, with both timestamps defaulted.
CheckedIngest(fwds, cached, a, log_entry_time, collection_time, env) ==
    IF log_entry_time.aware # collection_time.aware
    THEN CallResult("TypeError", EmptyDict,
                    <<"can't compare offset-naive and offset-aware datetimes">>,
                    cached, fwds, <<>>)
    ELSE IF Earlier(collection_time, log_entry_time)
    THEN CallResult("ValueError", EmptyDict,
                    <<"Collection time must be same or after log entry time">>,
                    cached, fwds, <<>>)
    ELSE IF a.forwarder_id.none
    THEN WithDefaultForwarder(get_or_create_forwarder(fwds, cached, NoName, env), a,
                              log_entry_time, collection_time, env.import)
    ELSE ImportLogs(a.forwarder_id.id, [cache |-> cached, fwds |-> fwds, log |-> <<>>],
                    a, log_entry_time, collection_time, env.import)

OrNow(time, now) == IF time.none THEN now ELSE time

\* a: the arguments; now: the value of datetime.now(); env: the backend's answers.
\* Mutant: an unknown log type is rejected whatever force_log_type is.
RejectedAlways(log_type, force_log_type) == ~is_valid_log_type(log_type)

\* if not is_valid_log_type(log_type) and not force_log_type
Rejected(log_type, force_log_type) == ~is_valid_log_type(log_type) /\ ~force_log_type

ingest_log(fwds, cached, a, now, env) ==
    IF Rejected(a.log_type, a.force_log_type)
    THEN CallResult("ValueError", EmptyDict,
                    <<"Invalid log type: ", a.log_type,
                      ". Use force_log_type=True to override.">>, cached, fwds, <<>>)
    ELSE CheckedIngest(fwds, cached, a, OrNow(a.log_entry_time, now),
                       OrNow(a.collection_time, now), env)

-----------------------------------------------------------------------------
(* ingest_udm *)

MaxEvents == 2

\* The UTC offsets of the host's local time zone, in hours.
HostOffsets == {-1, 0, 1}

\* A value of metadata.event_timestamp: the clock reading and the text after it.
NoTimestamp == [reading |-> 0, suffix |-> ""]
GivenTimestamp == [reading |-> 0, suffix |-> "given"]

NoUuid == [uuid |-> 0]
GivenUuid == [uuid |-> -1]

\* str(uuid.uuid4()): the n-th identifier drawn in the call
Uuid4(n) == [uuid |-> n]

\* event["metadata"]: a dict with or without event_timestamp and id, or a
\* value of another type.
Metadata(kind, has_ts, has_id) ==
    [kind |-> kind,
     has_event_timestamp |-> has_ts,
     event_timestamp |-> IF has_ts THEN GivenTimestamp ELSE NoTimestamp,
     has_id |-> has_id,
     id |-> IF has_id THEN GivenUuid ELSE NoUuid]

NoMetadata == Metadata("none", FALSE, FALSE)
Metadatas ==
    {Metadata("dict", has_ts, has_id) : has_ts \in BOOLEAN, has_id \in BOOLEAN}
    \cup {Metadata("str", FALSE, FALSE)}

\* An event: a dict with or without the key metadata, or a value of another type.
Event(kind, has_metadata, metadata) ==
    [kind |-> kind, has_metadata |-> has_metadata, metadata |-> metadata]

DictEvents ==
    {Event("dict", TRUE, m) : m \in Metadatas} \cup {Event("dict", FALSE, NoMetadata)}
Events == DictEvents \cup {Event("str", FALSE, NoMetadata)}

\* The objects of a list of events: at[i] is the address of the metadata
\* object of the i-th event. Two events of a list may hold the same metadata
\* object (the same event twice in the list, or one metadata dict put into
\* two events); an object first held by the i-th event has the address i.
Addresses(events) ==
    {at \in [1..Len(events) -> 1..Len(events)] :
        \A i \in 1..Len(events) :
            \/ at[i] = i
            \/ /\ at[i] < i /\ at[at[i]] = at[i]
               /\ events[i].has_metadata /\ events[at[i]].has_metadata
               /\ events[i].metadata = events[at[i]].metadata}

\* udm_events: a single dict, or a list.
SingleEvent(event) == [single |-> TRUE, events |-> <<event>>, at |-> <<1>>]
EventList(events) == [single |-> FALSE, events |-> events, at |-> [i \in 1..Len(events) |-> i]]
SharingList(events, at) == [single |-> FALSE, events |-> events, at |-> at]
UdmEvents ==
    {SingleEvent(e) : e \in DictEvents}
    \cup UNION {{SharingList(l, at) : at \in Addresses(l)} :
                   l \in UNION {[1..n -> Events] : n \in 0..MaxEvents}}

\* The memory holding the metadata objects of udm_events, by address.
Heap(udm_events) ==
    [a \in 1..Len(udm_events.events) |-> udm_events.events[a].metadata]

\* The events of a list as the memory heap holds them.
ReadEvents(udm_events, heap) ==
    [i \in 1..Len(udm_events.events) |->
        IF udm_events.events[i].has_metadata
        THEN [udm_events.events[i] EXCEPT !.metadata = heap[udm_events.at[i]]]
        ELSE udm_events.events[i]]

\* for ... in a dict yields its keys, strings: of the keys of an event only
\* "metadata" is told apart.
Keys(event) == IF event.has_metadata THEN <<Event("str", FALSE, NoMetadata)>> ELSE <<>>

\* What iterating udm_events yields, with the memory heap.
Elements(udm_events, heap) ==
    IF udm_events.single THEN Keys(udm_events.events[1])
    ELSE ReadEvents(udm_events, heap)

\* Mutant: a single dict is not put into a list.
NotNormalised(udm_events) == udm_events

\* if isinstance(udm_events, dict): udm_events = [udm_events]
Normalise(udm_events) ==
    IF udm_events.single THEN [udm_events EXCEPT !.single = FALSE] ELSE udm_events

\* Mutant: the list is used as it is, not copied.
NoCopy(udm_events) == udm_events

\* copy.deepcopy(udm_events): every object of the argument is copied once, to
\* a new address (CopiedHeap), and the copy holds the copies as the argument
\* holds the originals.
DeepCopy(udm_events) ==
    [udm_events EXCEPT !.at = [i \in 1..Len(udm_events.events) |->
                                  udm_events.at[i] + Len(udm_events.events)]]

CopiedHeap(heap) == heap \o heap

\* datetime.now().astimezone(): the instant now on a host offset hours from UTC
AsTimezone(now, offset) == [instant |-> now, offset |-> offset]

\* isoformat(): the local clock reading followed by the numeric offset
OffsetText(offset) ==
    IF offset = 0 THEN "+00:00" ELSE IF offset > 0 THEN "+hh:mm" ELSE "-hh:mm"
IsoFormat(dt) == [reading |-> dt.instant + dt.offset, suffix |-> OffsetText(dt.offset)]

\* .replace("+00:00", "Z")
ReplaceUtc(text) == IF text.suffix = "+00:00" THEN [text EXCEPT !.suffix = "Z"] ELSE text

\* Mutant: no event is rejected.
ProcessEventUnchecked(event, add_missing_ids, now, offset, n) ==
    [ok |-> TRUE, event |-> event, n |-> n, msg |-> <<>>]

\* The body of the loop for one event; n is the number of uuids drawn so far.
ProcessEvent(event, add_missing_ids, now, offset, n) ==
    IF event.kind # "dict"
    THEN [ok |-> FALSE, event |-> event, n |-> n,
          msg |-> <<"Invalid UDM event type: ", event.kind,
                    ". Events must be dictionaries.">>]
    ELSE IF ~event.has_metadata
    THEN [ok |-> FALSE, event |-> event, n |-> n,
          msg |-> <<"UDM event missing required 'metadata' section">>]
    ELSE IF event.metadata.kind # "dict"
    THEN [ok |-> FALSE, event |-> event, n |-> n,
          msg |-> <<"UDM 'metadata' must be a dictionary">>]
    ELSE LET stamped ==
                 IF ~event.metadata.has_event_timestamp
                 THEN [event.metadata EXCEPT
                          !.has_event_timestamp = TRUE,
                          !.event_timestamp = ReplaceUtc(IsoFormat(AsTimezone(now, offset)))]
                 ELSE event.metadata
             draws == add_missing_ids /\ ~stamped.has_id
             with_id ==
                 IF draws
                 THEN [stamped EXCEPT !.has_id = TRUE, !.id = Uuid4(n + 1)]
                 ELSE stamped
         IN [ok |-> TRUE, event |-> [event EXCEPT !.metadata = with_id],
             n |-> IF draws THEN n + 1 ELSE n, msg |-> <<>>]

\* for event in events_copy: from the i-th event on; heap is the memory as
\* the events before have left it. What is written to an event's metadata is
\* written to the object at its address.
RECURSIVE ProcessEvents(_, _, _, _, _, _, _)
ProcessEvents(events_copy, i, heap, add_missing_ids, now, offset, n) ==
    IF i > Len(Elements(events_copy, heap))
    THEN [ok |-> TRUE, events |-> Elements(events_copy, heap), heap |-> heap,
          msg |-> <<>>]
    ELSE LET p == ProcessEvent(Elements(events_copy, heap)[i], add_missing_ids,
                               now, offset, n)
         IN IF ~p.ok
            THEN [ok |-> FALSE, events |-> <<>>, heap |-> heap, msg |-> p.msg]
            ELSE ProcessEvents(events_copy, i + 1,
                               [heap EXCEPT ![events_copy.at[i]] = p.event.metadata],
                               add_missing_ids, now, offset, p.n)

\* {"inline_source": {"events": [{"udm": event} for event in events_copy]}}
UdmBody(events_copy) == [i \in 1..Len(events_copy) |-> [udm |-> events_copy[i]]]

\* Mutant: every status but 200 fails.
UdmFailedNot200(status) == status # 200

\* if response.status_code >= 400
UdmFailed(status) == status >= 400

\* if response.text.strip(): try response.json() except ValueError
ResponseData(text) ==
    IF Strip(text) = <<>> THEN EmptyDict
    ELSE IF JsonLoads(text).ok THEN JsonLoads(text).val
    ELSE RawDict(text)

\* The outcome of an ingest_udm call, with the memory as the call leaves it.
UdmResult(out, val, msg, c, fwds, log, heap) ==
    [out |-> out, val |-> val, msg |-> msg, cache |-> c, fwds |-> fwds, log |-> log,
     heap |-> heap]

\* The import POST and the reading of its response; p is the outcome of the loop.
ImportUdm(p, fwds, cached, response) ==
    IF ~p.ok
    THEN UdmResult("ValueError", EmptyDict, p.msg, cached, fwds, <<>>, p.heap)
    ELSE IF UdmFailed(response.status)
    THEN UdmResult("APIError", EmptyDict,
                   <<"Failed to ingest UDM events: ", response.body>>, cached, fwds,
                   <<Request("udm_import", UdmBody(p.events), response.status,
                             response.body)>>, p.heap)
    ELSE UdmResult("return", ResponseData(response.body), <<>>, cached, fwds,
                   <<Request("udm_import", UdmBody(p.events), response.status,
                             response.body)>>, p.heap)

\* a: the arguments; now, offset: the host's clock and time zone; response:
\* the backend's answer to the import request.
IngestNormalised(fwds, cached, udm_events, add_missing_ids, now, offset, response) ==
    IF Elements(udm_events, Heap(udm_events)) = <<>>
    THEN UdmResult("ValueError", EmptyDict, <<"No UDM events provided">>, cached,
                   fwds, <<>>, Heap(udm_events))
    ELSE ImportUdm(ProcessEvents(DeepCopy(udm_events), 1, CopiedHeap(Heap(udm_events)),
                                 add_missing_ids, now, offset, 0),
                   fwds, cached, response)

ingest_udm(fwds, cached, a, now, offset, response) ==
    IngestNormalised(fwds, cached, Normalise(a.udm_events), a.add_missing_ids, now,
                     offset, response)

-----------------------------------------------------------------------------
(* The single-caller state machine *)

Procs == 1..MaxProcs

\* Backend contents: at most MaxForwarders forwarders with distinct resource
\* names and display names among D.
Servers(D) ==
    {s \in UNION {[1..n -> [name : Names, displayName : D]] : n \in 0..MaxForwarders} :
        \A i, j \in 1..Len(s) : s[i].name = s[j].name => i = j}

UsedNames(fwds) == {fwds[i].name : i \in 1..Len(fwds)}

\* How the backend may answer a create: a fault, or a forwarder under a new name.
CreateAnswers(fwds) ==
    {[fault |-> f, name |-> None] : f \in Faults \ {"none"}}
    \cup {[fault |-> "none", name |-> n] : n \in Names \ UsedNames(fwds)}

\* The answers of a backend without faults to requests the call does not
\* reach: the whole list in one page, no create.
PlainChain(fwds) == <<Page(200, "", TRUE, fwds, "absent")>>
NoAnswer == [fault |-> "err", name |-> None]

\* The backend's answers to one get_or_create_forwarder call, each request
\* the call reaches answered in every way the backend can.
GetAnswers(cached, display_name) ==
    IF IsDefaultForwarderRequest(Target(display_name)) /\ cached # None
    THEN Faults ELSE {"none"}

ListAnswersAfter(forwarder, fwds, cached, display_name) ==
    IF /\ IsDefaultForwarderRequest(Target(display_name)) /\ cached # None
       /\ CacheHit(forwarder)
    THEN {PlainChain(fwds)}
    ELSE {c \in Chains(fwds) : c[Len(c)].tok = "absent"}

ListAnswers(fwds, cached, display_name, g) ==
    ListAnswersAfter(get_forwarder(fwds, cached, g), fwds, cached, display_name)

CreateAnswersAfter(found, fwds) ==
    IF found.out = "return" /\ ~found.found THEN CreateAnswers(fwds) ELSE {NoAnswer}

Envs(fwds, cached, display_name) ==
    UNION {UNION {
        {[get |-> g, pages |-> pages, create |-> cr] :
            cr \in CreateAnswersAfter(
                      _find_forwarder_by_display_name(pages, Target(display_name)), fwds)}
        : pages \in ListAnswers(fwds, cached, display_name, g)}
        : g \in GetAnswers(cached, display_name)}

NoCall == [op |-> "none", arg |-> <<>>, out |-> "none", val |-> NoForwarder,
           msg |-> <<>>, log |-> <<>>, pre |-> [cache |-> None, n |-> 0]]

NoRef == [out |-> "none", val |-> NoForwarder, fwds |-> <<>>]

\* The record of a call: what it was given, how it ended, the requests it
\* issued, and the cache slot and the number of forwarders it started with.
Call(op, arg, r) ==
    [op |-> op, arg |-> arg, out |-> r.out, val |-> r.val, msg |-> r.msg,
     log |-> r.log, pre |-> [cache |-> cache, n |-> Len(forwarders)]]

IdleProcs == [p \in Procs |-> "idle"]
NoLocals == [p \in Procs |-> [id |-> None, val |-> NoForwarder]]

Init ==
    /\ forwarders \in Servers({DefaultName, OtherName})
    /\ cache = None
    /\ last = NoCall
    /\ ref = NoRef
    /\ pc = IdleProcs
    /\ loc = NoLocals

\* The step of a get_or_create_forwarder call with outcome r; e is the
\* outcome of the same call started with an empty cache slot.
Returns(display_name, r, e) ==
    /\ Len(r.fwds) <= MaxForwarders
    /\ forwarders' = r.fwds
    /\ cache' = r.cache
    /\ last' = Call("get_or_create_forwarder", display_name, r)
    /\ ref' = [out |-> e.out, val |-> e.val, fwds |-> e.fwds]
    /\ UNCHANGED <<pc, loc>>

ResolvesAmong(D) ==
    \E display_name \in D :
      \E env \in Envs(forwarders, cache, display_name) :
        Returns(display_name,
                get_or_create_forwarder(forwarders, cache, display_name, env),
                get_or_create_forwarder(forwarders, None, display_name, env))

\* get_or_create_forwarder(client, display_name)
GetOrCreateForwarder == ResolvesAmong({NoName, DefaultName, OtherName})

\* A backend without faults: one page, and a create that succeeds.
PlainEnvs(fwds) ==
    {[get |-> "none", pages |-> PlainChain(fwds), create |-> cr] :
        cr \in {c \in CreateAnswers(fwds) \cup {NoAnswer} :
                   c.fault = "none" \/ Names \ UsedNames(fwds) = {}}}

NoImport == [status |-> 500, body |-> <<>>]
PlainImports == {[status |-> 200, body |-> <<"{", "}">>], NoImport}
Imports == [status : Statuses, body : Bodies]

LogMessageInputs ==
    {[single |-> TRUE, msg |-> "m1", msgs |-> <<>>],
     [single |-> FALSE, msg |-> "", msgs |-> <<"m1", "m2">>]}

ForwarderIdInputs == {NoneId, GivenId(<<"a">>), GivenId(NameA)}

LogArgs ==
    [log_type : LogTypes, force_log_type : BOOLEAN, log_message : LogMessageInputs,
     log_entry_time : DateTimes \cup {NoneTime}, collection_time : DateTimes \cup {NoneTime},
     forwarder_id : ForwarderIdInputs]

\* The arguments of the calls that run in sequence with other calls: a known
\* log type, the collection time left out, the entry time left out or given.
CallerLogArgs ==
    {a \in LogArgs : /\ a.log_message.single
                     /\ a.log_type \in KnownLogTypes /\ ~a.force_log_type
                     /\ a.log_entry_time \in {NoneTime, DateTime(MaxTime, FALSE)}
                     /\ a.collection_time = NoneTime
                     /\ a.forwarder_id \in {NoneId, GivenId(<<"a">>)}}

\* Whether the call gets past its validation, to its first request.
Validates(a, now) ==
    ingest_log(<<>>, None, a, now,
               [get |-> "none", pages |-> PlainChain(<<>>), create |-> NoAnswer,
                import |-> NoImport]).log # <<>>

WithImport(env, import) ==
    [get |-> env.get, pages |-> env.pages, create |-> env.create, import |-> import]

ImportsAfter(g, imports) == IF g.out = "return" THEN imports ELSE {NoImport}

\* The backend's answers to one ingest_log call: those of envs to the
\* forwarder resolution, those of imports to the import.
LogEnvs(fwds, cached, a, now, envs, imports) ==
    IF ~Validates(a, now)
    THEN {[get |-> "none", pages |-> PlainChain(fwds), create |-> NoAnswer,
           import |-> NoImport]}
    ELSE IF a.forwarder_id.none
    THEN UNION {{WithImport(e, i) :
                    i \in ImportsAfter(get_or_create_forwarder(fwds, cached, NoName, e),
                                       imports)} : e \in envs}
    ELSE UNION {{WithImport(e, i) : i \in imports} : e \in PlainEnvs(fwds)}

\* The step of an ingest_log call with outcome r.
Ingests(a, now, r) ==
    /\ Len(r.fwds) <= MaxForwarders
    /\ forwarders' = r.fwds
    /\ cache' = r.cache
    /\ last' = Call("ingest_log", [a |-> a, now |-> now], r)
    /\ ref' = NoRef
    /\ UNCHANGED <<pc, loc>>

\* ingest_log(client, log_type, log_message, ...)
IngestLog ==
    \E a \in CallerLogArgs :
      \E env \in LogEnvs(forwarders, cache, a, Now(0),
                         Envs(forwarders, cache, NoName), PlainImports) :
        Ingests(a, Now(0), ingest_log(forwarders, cache, a, Now(0), env))

Next ==
    \/ GetOrCreateForwarder
    \/ IngestLog

Spec == Init /\ [][Next]_vars

-----------------------------------------------------------------------------
(* Calls for the default forwarder only, on a backend that starts with at
   most one forwarder of the default display name *)

\* ingest_log calls that leave forwarder_id out.
DefaultLogArgs == {a \in CallerLogArgs : a.forwarder_id.none}

InitDefault ==
    /\ Init
    /\ \A i, j \in 1..Len(forwarders) :
          forwarders[i].displayName = DefaultName /\ forwarders[j].displayName = DefaultName
              => i = j

\* get_or_create_forwarder(client) and get_or_create_forwarder(client, default name)
GetOrCreateDefault == ResolvesAmong({NoName, DefaultName})

\* ingest_log(client, log_type, log_message) without forwarder_id
IngestLogDefault ==
    \E a \in DefaultLogArgs :
      \E env \in LogEnvs(forwarders, cache, a, Now(0),
                         Envs(forwarders, cache, NoName), PlainImports) :
        Ingests(a, Now(0), ingest_log(forwarders, cache, a, Now(0), env))

NextDefault ==
    \/ GetOrCreateDefault
    \/ IngestLogDefault

SpecDefault == InitDefault /\ [][NextDefault]_vars

-----------------------------------------------------------------------------
(* get_or_create_forwarder from every content of the backend and the cache slot *)

CacheContents == {None, <<"a">>, <<"b">>, <<"c">>}

InitCache ==
    /\ forwarders \in Servers(DisplayNames)
    /\ cache \in CacheContents
    /\ last = NoCall
    /\ ref = NoRef
    /\ pc = IdleProcs
    /\ loc = NoLocals

GetOrCreateOnce ==
    /\ last.op = "none"
    /\ ResolvesAmong({NoName} \cup DisplayNames)

NextCache == GetOrCreateOnce
SpecCache == InitCache /\ [][NextCache]_vars

-----------------------------------------------------------------------------
(* ingest_log, applied once to each input *)

\* Every argument, with a backend without faults.
IngestLogArgs ==
    /\ last.op = "none"
    /\ \E a \in LogArgs, t \in 0..MaxTime :
         \E env \in LogEnvs(forwarders, cache, a, Now(t), PlainEnvs(forwarders),
                            PlainImports) :
           Ingests(a, Now(t), ingest_log(forwarders, cache, a, Now(t), env))

\* Every answer to the import request.
IngestLogAnswers ==
    /\ last.op = "none"
    /\ \E a \in {c \in CallerLogArgs : c.log_entry_time = NoneTime} :
         \E env \in LogEnvs(forwarders, cache, a, Now(0), PlainEnvs(forwarders), Imports) :
           Ingests(a, Now(0), ingest_log(forwarders, cache, a, Now(0), env))

InitLog == Init /\ forwarders \in {<<>>, <<[name |-> NameA, displayName |-> DefaultName]>>}
NextLog == IngestLogArgs \/ IngestLogAnswers
SpecLog == InitLog /\ [][NextLog]_vars

-----------------------------------------------------------------------------
(* extract_forwarder_id and list_forwarders, applied once to each input *)

MaxNameLen == 4
NameChars == {"/", "a", "b"}
NameInputs == UNION {[1..n -> NameChars] : n \in 0..MaxNameLen}

\* extract_forwarder_id(forwarder_name)
ExtractForwarderId ==
    /\ last.op = "none"
    /\ \E forwarder_name \in NameInputs :
        LET id == extract_forwarder_id(forwarder_name)
            r == CallResult(IF id.ok THEN "return" ELSE "ValueError", id.id, id.msg,
                            cache, forwarders, <<>>)
        IN /\ last' = Call("extract_forwarder_id", forwarder_name, r)
           /\ UNCHANGED <<forwarders, cache, ref, pc, loc>>

InitExtract == Init /\ forwarders = <<>>
NextExtract == ExtractForwarderId
SpecExtract == InitExtract /\ [][NextExtract]_vars

PageSizes == {-1, 0, MinPageSize, DefaultPageSize, MaxPageSize, MaxPageSize + 1}

\* list_forwarders(client, page_size)
ListForwarders ==
    /\ last.op = "none"
    /\ \E page_size \in PageSizes, pages \in Chains(forwarders) :
        LET l == list_forwarders(pages, page_size, 1)
            r == CallResult(l.out, [has |-> l.has, fwd |-> l.fwd, tok |-> l.tok], l.msg,
                            cache, forwarders, l.log)
        IN /\ last' = Call("list_forwarders", [page_size |-> page_size, pages |-> pages], r)
           /\ UNCHANGED <<forwarders, cache, ref, pc, loc>>

NextList == ListForwarders
SpecList == Init /\ [][NextList]_vars

-----------------------------------------------------------------------------
(* ingest_udm, applied once to each input *)

UdmArgs == [udm_events : UdmEvents, add_missing_ids : BOOLEAN]

\* The step of an ingest_udm call with outcome r; after is the caller's
\* object as the call leaves it.
IngestsUdm(a, now, offset, response, r) ==
    /\ last' = Call("ingest_udm",
                    [a |-> a, now |-> now, offset |-> offset, response |-> response,
                     after |-> [a.udm_events EXCEPT
                                   !.events = ReadEvents(a.udm_events, r.heap)]], r)
    /\ UNCHANGED <<forwarders, cache, pc, loc>>

\* The same call with the one-element list of a single event in its place.
AsList(a) == [a EXCEPT !.udm_events.single = FALSE]

\* e is the outcome of the call with AsList(a).
IngestsUdmAnd(a, now, offset, response, r, e) ==
    /\ IngestsUdm(a, now, offset, response, r)
    /\ ref' = [out |-> e.out, val |-> e.val, fwds |-> e.fwds, msg |-> e.msg,
               log |-> e.log]

\* Every argument, on every host, with a backend without faults.
IngestUdmArgs ==
    /\ last.op = "none"
    /\ \E a \in UdmArgs, now \in 0..MaxTime, offset \in HostOffsets :
         \E response \in PlainImports :
           IngestsUdmAnd(a, now, offset, response,
                         ingest_udm(forwarders, cache, a, now, offset, response),
                         ingest_udm(forwarders, cache, AsList(a), now, offset, response))

\* Every answer to the import request.
IngestUdmAnswers ==
    /\ last.op = "none"
    /\ \E a \in {u \in UdmArgs : u.udm_events = SingleEvent(Event("dict", TRUE,
                                                  Metadata("dict", FALSE, FALSE)))} :
         \E response \in Imports :
           IngestsUdmAnd(a, 0, 0, response,
                         ingest_udm(forwarders, cache, a, 0, 0, response),
                         ingest_udm(forwarders, cache, AsList(a), 0, 0, response))

InitUdm == Init /\ forwarders = <<>>
NextUdm == IngestUdmArgs \/ IngestUdmAnswers
SpecUdm == InitUdm /\ [][NextUdm]_vars

-----------------------------------------------------------------------------
(* get_or_create_forwarder for the default name, called by several callers
   on one client: each read of the cache slot, each request and each write
   of the cache slot is a step of its own.  The backend serves the list in
   one page. *)

\* The record of a call as it ends for its caller.
Ends(out, val, msg) ==
    [op |-> "get_or_create_forwarder", arg |-> NoName, out |-> out, val |-> val,
     msg |-> msg, log |-> <<>>, pre |-> [cache |-> None, n |-> 0]]

Goto(p, label) == pc' = [pc EXCEPT ![p] = label]

\* if is_default_forwarder_request and client._cached_default_forwarder_id:
ReadCache(p) ==
    /\ pc[p] = "idle"
    /\ Goto(p, IF cache # None THEN "argument" ELSE "find")
    /\ UNCHANGED <<forwarders, cache, last, ref, loc>>

\* The argument of get_forwarder(client, client._cached_default_forwarder_id)
ReadArgument(p) ==
    /\ pc[p] = "argument"
    /\ loc' = [loc EXCEPT ![p].id = cache]
    /\ Goto(p, "get")
    /\ UNCHANGED <<forwarders, cache, last, ref>>

GotForwarder(p, forwarder) ==
    IF CacheHit(forwarder)
    THEN /\ Goto(p, "idle")
         /\ last' = Ends("return", forwarder.val, <<>>)
    ELSE /\ Goto(p, "invalidate")
         /\ UNCHANGED last

\* forwarder = get_forwarder(...), and the test of its display name; the
\* argument is not used again.
GetCached(p) ==
    /\ pc[p] = "get"
    /\ \E fault \in Faults : GotForwarder(p, get_forwarder(forwarders, loc[p].id, fault))
    /\ loc' = [loc EXCEPT ![p] = NoLocals[p]]
    /\ UNCHANGED <<forwarders, cache, ref>>

\* client._cached_default_forwarder_id = None
Invalidate(p) ==
    /\ pc[p] = "invalidate"
    /\ cache' = None
    /\ Goto(p, "find")
    /\ UNCHANGED <<forwarders, last, ref, loc>>

Found(p, found) ==
    IF found.out = "APIError"
    THEN /\ Goto(p, "idle")
         /\ last' = Ends("APIError", NoForwarder, HandleAPIError(found.msg))
         /\ UNCHANGED loc
    ELSE IF found.found
    THEN /\ Goto(p, "cache")
         /\ loc' = [loc EXCEPT ![p].val = found.val]
         /\ UNCHANGED last
    ELSE /\ Goto(p, "create")
         /\ UNCHANGED <<last, loc>>

\* found_forwarder = _find_forwarder_by_display_name(client, target_display_name)
Find(p) ==
    /\ pc[p] = "find"
    /\ \E pages \in {c \in Chains(forwarders) : Len(c) = 1 /\ c[1].tok # "empty"} :
         Found(p, _find_forwarder_by_display_name(pages, DefaultName))
    /\ UNCHANGED <<forwarders, cache, ref>>

Created(p, created) ==
    /\ forwarders' = created.fwds
    /\ IF created.out = "APIError"
       THEN /\ Goto(p, "idle")
            /\ last' = Ends("APIError", NoForwarder, HandleAPIError(created.msg))
            /\ UNCHANGED loc
       ELSE /\ Goto(p, "cache")
            /\ loc' = [loc EXCEPT ![p].val = created.val]
            /\ UNCHANGED last

\* The backend creates while it holds fewer than MaxForwarders forwarders.
CreateAnswersUpTo(fwds) ==
    {a \in CreateAnswers(fwds) : a.fault = "none" => Len(fwds) < MaxForwarders}

\* created_forwarder = create_forwarder(client, display_name=target_display_name)
Create(p) ==
    /\ pc[p] = "create"
    /\ \E answer \in CreateAnswersUpTo(forwarders) :
         Created(p, create_forwarder(forwarders, DefaultName, answer))
    /\ UNCHANGED <<cache, ref>>

Cached(p, id) ==
    IF id.ok
    THEN /\ cache' = id.id
         /\ last' = Ends("return", loc[p].val, <<>>)
    ELSE /\ UNCHANGED cache
         /\ last' = Ends("ValueError", NoForwarder, id.msg)

\* client._cached_default_forwarder_id = extract_forwarder_id(...["name"]); return
CacheId(p) ==
    /\ pc[p] = "cache"
    /\ Cached(p, extract_forwarder_id(loc[p].val.name))
    /\ Goto(p, "idle")
    /\ loc' = [loc EXCEPT ![p] = NoLocals[p]]
    /\ UNCHANGED <<forwarders, ref>>

\* A client with an empty cache slot, no forwarder with the default display
\* name on the backend yet.
InitConc ==
    /\ Init
    /\ Len(forwarders) <= 1
    /\ \A i \in 1..Len(forwarders) : forwarders[i].displayName # DefaultName

NextConc ==
    \E p \in Procs :
        \/ ReadCache(p)
        \/ ReadArgument(p)
        \/ GetCached(p)
        \/ Invalidate(p)
        \/ Find(p)
        \/ Create(p)
        \/ CacheId(p)

SpecConc == InitConc /\ [][NextConc]_vars

-----------------------------------------------------------------------------
(* Properties *)

IsGetOrCreate == last.op = "get_or_create_forwarder"
IsDefaultCall == IsGetOrCreate /\ Target(last.arg) = DefaultName

\* The forwarders of the backend that carry the default display name.
DefaultForwarders(fwds) == {i \in 1..Len(fwds) : fwds[i].displayName = DefaultName}

\* The requests of kind req among log.
Count(log, req) == Cardinality({i \in 1..Len(log) : log[i].req = req})
AllAnswered(log) == \A i \in 1..Len(log) : log[i].status = 200

\* C1: in every state a single caller reaches by get_or_create_forwarder and
\* ingest_log calls, the cache slot is empty or holds the short ID of a
\* forwarder of the backend whose display name is the default display name.
C1_CacheValid ==
    \/ cache = None
    \/ \E i \in 1..Len(forwarders) :
          /\ forwarders[i].displayName = DefaultName
          /\ forwarders[i].name \in {NameA, NameB}
          /\ cache = IF forwarders[i].name = NameA THEN <<"a">> ELSE <<"b">>

\* A call that started with a filled cache slot and left it filled.
C1_Witness ==
    /\ last.op = "ingest_log"
    /\ last.pre.cache # None
    /\ cache # None
    /\ last.out = "return"

\* The backend's forwarders before the last call (the backend only appends).
Before == SubSeq(forwarders, 1, last.pre.n)

\* The short ID of a well-formed resource name of the backend.
ShortId(name) == IF name = NameA THEN <<"a">> ELSE <<"b">>

\* C2: from an empty cache slot and a backend with no forwarder of the default
\* display name, a get_or_create_forwarder call with no explicit name that
\* returns issues exactly one create request and leaves the cache slot holding
\* the short ID of the created forwarder; the next such call, its request
\* answered, issues exactly one get-by-ID request and no list or create request.
C2_CreateThenGet ==
    [][ /\ ( /\ cache = None
             /\ DefaultForwarders(forwarders) = {}
             /\ last'.op = "get_or_create_forwarder" /\ last'.arg = NoName
             /\ last'.out = "return" )
           => /\ Count(last'.log, "create") = 1
              /\ Len(forwarders') = Len(forwarders) + 1
              /\ last'.val = forwarders'[Len(forwarders')]
              /\ last'.val.name \in {NameA, NameB}
              /\ cache' = ShortId(last'.val.name)
        /\ ( /\ IsGetOrCreate /\ last.arg = NoName /\ last.out = "return"
             /\ last.pre.cache = None /\ Count(last.log, "create") = 1
             /\ last'.op = "get_or_create_forwarder" /\ last'.arg = NoName
             /\ AllAnswered(last'.log) )
           => /\ Len(last'.log) = 1
              /\ last'.log[1].req = "get"
              /\ last'.log[1].arg = cache
              /\ last'.out = "return"
              /\ last'.val = last.val
      ]_vars

\* The second call: one get-by-ID for the ID the first call cached.
C2_Witness ==
    /\ IsGetOrCreate /\ last.arg = NoName /\ last.out = "return"
    /\ last.pre.cache # None
    /\ Len(last.log) = 1 /\ last.log[1].req = "get"
    /\ Len(forwarders) = 1
    /\ last.val = forwarders[1]

\* C3 as stated: for every backend content and every content of the cache
\* slot, get_or_create_forwarder for the default name ends as the same call
\* started with an empty cache slot does: the same forwarder, the same backend.
C3_SameAsEmptyCache ==
    IsDefaultCall =>
        /\ last.out = ref.out
        /\ last.val = ref.val
        /\ forwarders = ref.fwds

\* C3 as amended: the same, for a backend holding at most one forwarder with
\* the default display name.
C3_SameAsEmptyCacheUnique ==
    (IsDefaultCall /\ Cardinality(DefaultForwarders(Before)) <= 1) =>
        /\ last.out = ref.out
        /\ last.val = ref.val
        /\ forwarders = ref.fwds

\* A call that took the cached forwarder without listing, and a call that
\* found the cache slot stale: both end as the call from the empty slot.
C3_Witness ==
    /\ IsDefaultCall /\ last.out = "return"
    /\ last.pre.cache # None
    /\ Cardinality(DefaultForwarders(Before)) = 1
    /\ Len(last.log) = 1 /\ last.log[1].req = "get" /\ last.log[1].status = 200
    /\ ref.val = last.val

\* C4: with several callers of get_or_create_forwarder for the default name
\* interleaving on one client, every call that returns, returns a forwarder
\* of the backend with the default display name, and the cache slot is
\* always empty or the short ID of such a forwarder.
C4_InterleavedCallsSafe ==
    /\ (IsGetOrCreate /\ last.out = "return") =>
          /\ last.val.displayName = DefaultName
          /\ \E i \in 1..Len(forwarders) : forwarders[i] = last.val
    /\ cache # None =>
          \E i \in DefaultForwarders(forwarders) :
              /\ ~(\A k \in 1..Len(forwarders[i].name) : forwarders[i].name[k] = "/")
              /\ cache = ShortId(forwarders[i].name)

\* The race: two callers each created a forwarder, both calls have returned,
\* and the cache slot holds the ID of one of the two.
C4_Witness ==
    /\ Cardinality(DefaultForwarders(forwarders)) = 2
    /\ \A p \in Procs : pc[p] = "idle"
    /\ IsGetOrCreate /\ last.out = "return"
    /\ cache # None

\* The concatenation of the forwarders of the pages of a chain.
RECURSIVE Concatenation(_)
Concatenation(pages) ==
    IF pages = <<>> THEN <<>> ELSE Head(pages).fwd \o Concatenation(Tail(pages))

\* A chain of pages all served with status 200, the last without a token.
ServedChain(pages) ==
    /\ \A i \in 1..Len(pages) : pages[i].status = 200
    /\ pages[Len(pages)].tok = "absent"

\* C5: for a chain of pages served with status 200, each page's forwarders
\* non-empty, empty or absent, list_forwarders returns one result whose
\* forwarders are the concatenation of the pages' forwarders in page order,
\* without a nextPageToken key.
C5_ListConcatenatesPages ==
    (last.op = "list_forwarders" /\ ServedChain(last.arg.pages)) =>
        /\ last.out = "return"
        /\ last.val.fwd = Concatenation(last.arg.pages)
        /\ last.val.tok = "absent"

\* Two pages listed into one result.
C5_Witness ==
    /\ last.op = "list_forwarders" /\ ServedChain(last.arg.pages)
    /\ Len(last.arg.pages) = 2
    /\ last.out = "return"
    /\ Len(last.val.fwd) = 2
    /\ last.arg.pages[1].fwd # <<>> /\ last.arg.pages[2].fwd # <<>>

\* C6: every ValueError of a call is raised before the call has issued a
\* request, with the cache slot and the backend's forwarders as they were.
C6_ValueErrorBeforeRequests ==
    last.out = "ValueError" =>
        /\ last.log = <<>>
        /\ cache = last.pre.cache
        /\ Len(forwarders) = last.pre.n

\* A ValueError of ingest_log's own validation: no request was issued.
C6_Witness ==
    /\ last.op = "ingest_log" /\ last.out = "ValueError"
    /\ last.log = <<>>

\* The timestamps an ingest_log call works with.
EntryTime == OrNow(last.arg.a.log_entry_time, last.arg.now)
CollectionTime == OrNow(last.arg.a.collection_time, last.arg.now)

\* C7: an ingest_log call whose collection time (given, or the call's now) is
\* earlier than its log entry time (given, or the call's now) fails with a
\* ValueError and issues no request.
C7_EarlierCollectionFails ==
    (last.op = "ingest_log" /\ CollectionTime.t < EntryTime.t) =>
        /\ last.out = "ValueError"
        /\ last.log = <<>>

\* The rejected call with no forwarder_id and an empty cache slot: the
\* default forwarder is not resolved.
C7_Witness ==
    /\ last.op = "ingest_log" /\ CollectionTime.t < EntryTime.t
    /\ last.arg.a.forwarder_id = NoneId /\ last.pre.cache = None
    /\ last.arg.a.collection_time = NoneTime
    /\ is_valid_log_type(last.arg.a.log_type)
    /\ last.out = "ValueError" /\ last.log = <<>>
    /\ cache = None /\ forwarders = Before

\* The message of the APIError a failed request raises.
Raised(request) ==
    <<CASE request.req = "get" -> "Failed to get forwarder: "
        [] request.req = "list" -> "Failed to list forwarders: "
        [] request.req = "create" -> "Failed to create forwarder: ",
      request.text>>

Enriched(msg) == <<"Insufficient permissions to manage forwarders: ">> \o msg

\* msg ends with the fragments of tail.
EndsWith(msg, tail) ==
    /\ Len(msg) >= Len(tail)
    /\ SubSeq(msg, Len(msg) - Len(tail) + 1, Len(msg)) = tail

\* C8 as stated: an APIError raised by a get, list or create request of a
\* get_or_create_forwarder call reaches the caller: as an enriched error
\* carrying its message when that message has a permission indicator, and
\* with the message it was raised with otherwise.
C8_ErrorsReachCaller ==
    IsGetOrCreate =>
        \A i \in 1..Len(last.log) :
            last.log[i].status # 200 =>
                /\ last.out = "APIError"
                /\ IF last.log[i].text = "PERMISSION_DENIED"
                   THEN /\ Head(last.msg) = "Insufficient permissions to manage forwarders: "
                        /\ EndsWith(last.msg, Raised(last.log[i]))
                   ELSE last.msg = Raised(last.log[i])

\* The message _find_forwarder_by_display_name raises for a failed list request.
Searching(target, msg) ==
    <<"Failed to list forwarders while searching for '", target, "': ">> \o msg

\* C8 as amended: the APIError of the get-by-ID request does not reach the
\* caller (the call goes on to list); the APIError of a list request reaches
\* the caller with the searched display name put before its message, and the
\* APIError of a create request with its message; either is enriched when the
\* response text, or for the list the searched display name, has a permission
\* indicator.
C8_ErrorsReachCallerAmended ==
    IsGetOrCreate =>
        \A i \in 1..Len(last.log) :
            last.log[i].status # 200 =>
                CASE last.log[i].req = "get" ->
                        /\ i = 1 /\ Len(last.log) >= 2
                        /\ last.log[2].req = "list"
                        /\ last.out = "APIError" =>
                              EndsWith(last.msg, Raised(last.log[Len(last.log)]))
                  [] last.log[i].req = "list" ->
                        /\ last.out = "APIError"
                        /\ last.msg =
                             IF \/ last.log[i].text = "PERMISSION_DENIED"
                                \/ Target(last.arg) = PermName
                             THEN Enriched(Searching(Target(last.arg), Raised(last.log[i])))
                             ELSE Searching(Target(last.arg), Raised(last.log[i]))
                  [] last.log[i].req = "create" ->
                        /\ last.out = "APIError"
                        /\ last.msg = IF last.log[i].text = "PERMISSION_DENIED"
                                      THEN Enriched(Raised(last.log[i]))
                                      ELSE Raised(last.log[i])

\* A call whose get-by-ID was denied and whose create was denied next: the
\* caller gets the enriched error of the create, none of the get.
C8_Witness ==
    /\ IsGetOrCreate /\ last.out = "APIError"
    /\ Len(last.log) = 3
    /\ last.log[1].req = "get" /\ last.log[1].text = "PERMISSION_DENIED"
    /\ last.log[3].req = "create" /\ last.log[3].text = "PERMISSION_DENIED"
    /\ last.msg = Enriched(Raised(last.log[3]))

\* The import request of the last ingest_log call, when it issued one.
IsImport ==
    /\ last.op = "ingest_log"
    /\ last.log # <<>>
    /\ last.log[Len(last.log)].req = "import"
ImportRequest == last.log[Len(last.log)]

\* C9 as stated: ingest_log raises APIError exactly when the status of the
\* import response is outside 200..299, and returns the decoded body otherwise.
C9_FailsOutside2xx ==
    IsImport =>
        /\ last.out = "APIError" <=>
              (ImportRequest.status < 200 \/ ImportRequest.status > 299)
        /\ (last.out # "APIError" /\ JsonLoads(ImportRequest.text).ok) =>
              last.out = "return" /\ last.val = JsonLoads(ImportRequest.text).val

\* C9 as amended: ingest_log raises APIError exactly when the status of the
\* import response is not 200; for status 200 it returns the decoded body
\* when the body is a JSON document, and raises the decoder's error otherwise.
C9_FailsUnless200 ==
    IsImport =>
        /\ last.out = "APIError" <=> ImportRequest.status # 200
        /\ (ImportRequest.status = 200 /\ JsonLoads(ImportRequest.text).ok) =>
              last.out = "return" /\ last.val = JsonLoads(ImportRequest.text).val
        /\ (ImportRequest.status = 200 /\ ~JsonLoads(ImportRequest.text).ok) =>
              last.out = "ValueError"

\* An import answered 201: the call raises APIError.
C9_Witness ==
    /\ IsImport /\ ImportRequest.status = 201
    /\ last.out = "APIError"
    /\ last.msg = <<"Failed to ingest log: ", ImportRequest.text>>

\* The import request of the last ingest_udm call, when it issued one.
IsUdmImport == last.op = "ingest_udm" /\ last.log # <<>>

Blank(text) == \A i \in 1..Len(text) : text[i] = " "

\* C10: ingest_udm raises APIError exactly when the status of the import
\* response is 400 or more; otherwise it returns the parsed body when the body
\* is not blank and well-formed, the mapping raw_response -> body when it is
\* not blank and not well-formed, and an empty mapping when it is blank.
C10_UdmResponse ==
    IsUdmImport =>
        /\ last.out = "APIError" <=> last.log[1].status >= 400
        /\ last.log[1].status < 400 =>
              /\ last.out = "return"
              /\ last.val = IF Blank(last.log[1].text) THEN EmptyDict
                            ELSE IF JsonLoads(last.log[1].text).ok
                            THEN JsonLoads(last.log[1].text).val
                            ELSE RawDict(last.log[1].text)

\* A response with a status between 201 and 399 and a body that is no JSON
\* document: the raw text is returned.
C10_Witness ==
    /\ IsUdmImport /\ last.log[1].status = 399
    /\ last.out = "return"
    /\ last.val.has_raw /\ last.val.raw_response = last.log[1].text
    /\ ~Blank(last.log[1].text)

\* The last call is an ingest_udm call; what it was given and what it submitted.
IsUdm == last.op = "ingest_udm"
GivenEvents == last.arg.a.udm_events.events
Submitted == last.log[1].arg

\* C11: after every ingest_udm call, however it ends, the object the caller
\* passed is equal, in every event and every metadata field, to what it was
\* before the call.
C11_InputUnchanged ==
    IsUdm => last.arg.after = last.arg.a.udm_events

\* A call that back-filled the timestamp and the id into the submitted copy
\* of an event that had neither.
C11_Witness ==
    /\ IsUdm /\ last.out = "return"
    /\ ~GivenEvents[1].metadata.has_id /\ ~GivenEvents[1].metadata.has_event_timestamp
    /\ Submitted[1].udm.metadata.has_id /\ Submitted[1].udm.metadata.has_event_timestamp
    /\ ~last.arg.after.events[1].metadata.has_id

\* C12: ingest_udm given a single mapping ends as ingest_udm given the list
\* of that one mapping does: the same error, or the same request and result.
C12_SingleAsList ==
    (IsUdm /\ last.arg.a.udm_events.single) =>
        /\ last.out = ref.out
        /\ last.msg = ref.msg
        /\ last.val = ref.val
        /\ Len(last.log) = Len(ref.log)
        /\ last.log # <<>> => /\ Submitted = ref.log[1].arg
                              /\ Len(Submitted) = 1

\* A single mapping submitted as the one event of the request.
C12_Witness ==
    /\ IsUdm /\ last.arg.a.udm_events.single
    /\ last.out = "return" /\ ref.out = "return"
    /\ Len(Submitted) = 1
    /\ Submitted[1].udm.metadata.has_id

\* The events of the last call whose input has a metadata mapping without id.
LacksId(i) ==
    /\ GivenEvents[i].has_metadata
    /\ GivenEvents[i].metadata.kind = "dict"
    /\ ~GivenEvents[i].metadata.has_id

\* C13: in an ingest_udm call with add_missing_ids true, every submitted
\* event whose input had no metadata.id carries a generated id, and the
\* generated ids of two such events are different.
C13_GeneratedIdsDistinct ==
    (IsUdm /\ last.arg.a.add_missing_ids /\ last.log # <<>>) =>
        /\ \A i \in 1..Len(Submitted) :
              LacksId(i) => /\ Submitted[i].udm.metadata.has_id
                            /\ Submitted[i].udm.metadata.id.uuid >= 1
        /\ \A i, j \in 1..Len(Submitted) :
              (i # j /\ LacksId(i) /\ LacksId(j)) =>
                  Submitted[i].udm.metadata.id # Submitted[j].udm.metadata.id

\* Two events with metadata objects of their own, both without id: the
\* submitted events carry two generated ids.
C13_Witness ==
    /\ IsUdm /\ last.arg.a.add_missing_ids /\ last.log # <<>>
    /\ Len(Submitted) = 2 /\ LacksId(1) /\ LacksId(2)
    /\ last.arg.a.udm_events.at = <<1, 2>>
    /\ Submitted[1].udm.metadata.id = Uuid4(1)
    /\ Submitted[2].udm.metadata.id = Uuid4(2)

\* An event ingest_udm rejects.
Malformed(event) ==
    \/ event.kind # "dict"
    \/ ~event.has_metadata
    \/ event.metadata.kind # "dict"

\* C18: an ingest_udm call given an empty list, or a list with a malformed
\* event at any position, fails with a ValueError and issues no request.
C18_BatchValidatedFirst ==
    (IsUdm /\ (GivenEvents = <<>> \/ \E i \in 1..Len(GivenEvents) : Malformed(GivenEvents[i])))
        => /\ last.out = "ValueError"
           /\ last.log = <<>>

\* A list whose first event is well-formed and whose last is not: nothing
\* is submitted.
C18_Witness ==
    /\ IsUdm /\ Len(GivenEvents) = 2
    /\ ~Malformed(GivenEvents[1]) /\ Malformed(GivenEvents[2])
    /\ last.out = "ValueError" /\ last.log = <<>>

\* C20: on a host of any UTC offset, the event_timestamp of a submitted event
\* whose input had none is the current instant written as a UTC reading with
\* the literal Z after it, and the event_timestamp of a submitted event whose
\* input had one is that one.
C20_BackfilledTimestampUtc ==
    (IsUdm /\ last.log # <<>>) =>
        \A i \in 1..Len(Submitted) :
            Submitted[i].udm.metadata.event_timestamp =
                IF GivenEvents[i].metadata.has_event_timestamp
                THEN GivenEvents[i].metadata.event_timestamp
                ELSE [reading |-> last.arg.now, suffix |-> "Z"]

\* On a host whose local time is UTC: one event gets the instant with Z, the
\* other keeps the timestamp it had.
C20_Witness ==
    /\ IsUdm /\ last.log # <<>> /\ last.arg.offset = 0 /\ last.arg.now = 1
    /\ Len(Submitted) = 2
    /\ ~GivenEvents[1].metadata.has_event_timestamp
    /\ GivenEvents[2].metadata.has_event_timestamp
    /\ Submitted[1].udm.metadata.event_timestamp = [reading |-> 1, suffix |-> "Z"]
    /\ Submitted[2].udm.metadata.event_timestamp = GivenTimestamp

\* C14: for a log type outside the registry, ingest_log with force_log_type
\* false fails with a ValueError and issues no request; with force_log_type
\* true and a collection time not before the entry time it goes on to the
\* requests, and its import request carries that log type in the URL.
C14_UnknownLogType ==
    (last.op = "ingest_log" /\ ~is_valid_log_type(last.arg.a.log_type)) =>
        /\ ~last.arg.a.force_log_type =>
              /\ last.out = "ValueError"
              /\ last.msg = <<"Invalid log type: ", last.arg.a.log_type,
                              ". Use force_log_type=True to override.">>
              /\ last.log = <<>>
        /\ ( /\ last.arg.a.force_log_type
             /\ CollectionTime.aware = EntryTime.aware
             /\ CollectionTime.t >= EntryTime.t ) =>
              /\ last.log # <<>>
              /\ ~last.arg.a.forwarder_id.none => IsImport
              /\ IsImport => ImportRequest.arg.log_type = last.arg.a.log_type
              /\ ~IsImport => last.out # "return"

\* The forced call: the import request for the unknown log type was issued.
C14_Witness ==
    /\ last.op = "ingest_log" /\ ~is_valid_log_type(last.arg.a.log_type)
    /\ last.arg.a.force_log_type
    /\ IsImport /\ ImportRequest.arg.log_type = last.arg.a.log_type
    /\ last.out = "return"

\* The part of name after its last "/" that is followed by another character:
\* the last non-empty segment, for a name that does not end with "/".
RECURSIVE LastSegment(_)
LastSegment(name) ==
    IF name[Len(name)] = "/" THEN LastSegment(SubSeq(name, 1, Len(name) - 1))
    ELSE LET starts == {k \in 1..Len(name) : \A i \in k..Len(name) : name[i] # "/"}
         IN SubSeq(name, CHOOSE k \in starts : \A j \in starts : k <= j, Len(name))

OnlySlashes(name) == \A i \in 1..Len(name) : name[i] = "/"

\* C15: extract_forwarder_id fails with a ValueError for a name that is empty
\* or has only "/" characters, returns a non-empty name without "/" as it
\* is, and returns the last non-empty segment of any other name; its result
\* is a name it returns as it is.
C15_ExtractLastSegment ==
    last.op = "extract_forwarder_id" =>
        IF OnlySlashes(last.arg)
        THEN /\ last.out = "ValueError"
             /\ last.log = <<>>
        ELSE /\ last.out = "return"
             /\ last.val = IF HasSlash(last.arg) THEN LastSegment(last.arg) ELSE last.arg
             /\ extract_forwarder_id(last.val) = [ok |-> TRUE, id |-> last.val, msg |-> <<>>]

\* A resource path with empty segments: the last non-empty one is returned.
C15_Witness ==
    /\ last.op = "extract_forwarder_id"
    /\ last.arg = <<"a", "/", "/", "b">>
    /\ last.out = "return" /\ last.val = <<"b">>

\* The forwarders of the backend, before the last call, served under the ID id.
ServedAs(id) == {i \in 1..Len(Before) : ServerId(Before[i]) = id}

\* The cached forwarder is good: the get-by-ID was answered 200 with a
\* forwarder of the default display name.
GoodCached ==
    /\ last.log[1].status = 200
    /\ \E i \in ServedAs(last.pre.cache) : Before[i].displayName = DefaultName

\* C16: a get_or_create_forwarder call for the default name that starts with
\* an ID in the cache slot first issues one get-by-ID for that ID, and no
\* other. Answered 200 with the default display name, the forwarder is
\* returned and no other request issued. Otherwise the second request is a
\* list request, the cache slot is empty if the call fails from there on, and
\* a create request is issued, last, exactly when the listing went through
\* and showed no forwarder of the default display name.
C16_CachedGetFirst ==
    (IsDefaultCall /\ last.pre.cache # None) =>
        /\ last.log # <<>>
        /\ last.log[1].req = "get" /\ last.log[1].arg = last.pre.cache
        /\ Count(last.log, "get") = 1
        /\ IF GoodCached
           THEN /\ Len(last.log) = 1
                /\ last.out = "return"
                /\ last.val.displayName = DefaultName
                /\ last.val \in {Before[i] : i \in ServedAs(last.pre.cache)}
                /\ cache = last.pre.cache
           ELSE /\ Len(last.log) >= 2 /\ last.log[2].req = "list"
                /\ last.out # "return" => cache = None
                /\ \A i \in 2..Len(last.log) :
                      last.log[i].req = "create" =>
                          /\ i = Len(last.log)
                          /\ \A j \in 2..(i - 1) :
                                last.log[j].req = "list" /\ last.log[j].status = 200
                          /\ DefaultForwarders(Before) = {}
                /\ ( /\ last.out \in {"return", "APIError", "ValueError"}
                     /\ \A j \in 2..Len(last.log) :
                           last.log[j].req = "list" => last.log[j].status = 200
                     /\ DefaultForwarders(Before) = {} )
                   => last.log[Len(last.log)].req = "create"

\* A stale ID: the get-by-ID is answered 404, the list request fails, and
\* the call ends with an empty cache slot.
C16_Witness ==
    /\ IsDefaultCall /\ last.pre.cache # None
    /\ last.log[1].req = "get" /\ last.log[1].status = 404
    /\ Len(last.log) = 2 /\ last.log[2].req = "list" /\ last.log[2].status # 200
    /\ last.out = "APIError"
    /\ cache = None

\* C17: a get_or_create_forwarder call for a display name other than the
\* default one issues no get-by-ID request and leaves the cache slot as it
\* was, whether it finds the forwarder, creates it or fails.
C17_OtherNameLeavesCache ==
    (IsGetOrCreate /\ Target(last.arg) # DefaultName) =>
        /\ Count(last.log, "get") = 0
        /\ cache = last.pre.cache

\* A forwarder of another name created while the cache slot held an ID.
C17_Witness ==
    /\ IsGetOrCreate /\ Target(last.arg) # DefaultName
    /\ last.pre.cache # None /\ cache = last.pre.cache
    /\ last.out = "return"
    /\ Count(last.log, "create") = 1
    /\ last.val.displayName = last.arg

\* min(1000, max(1, page_size)), written out
Clamped(page_size) ==
    IF page_size < 1 THEN 1 ELSE IF page_size > 1000 THEN 1000 ELSE page_size

\* C19: for every integer page_size, every page request of list_forwarders
\* carries the parameter pageSize, equal to page_size clamped to 1..1000.
C19_PageSizeClamped ==
    last.op = "list_forwarders" =>
        \A i \in 1..Len(last.log) :
            /\ last.log[i].arg.hasSize
            /\ last.log[i].arg.pageSize = Clamped(last.arg.page_size)

\* A page_size above the range: both page requests ask for 1000.
C19_Witness ==
    /\ last.op = "list_forwarders" /\ last.arg.page_size = 1001
    /\ Len(last.log) = 2
    /\ last.log[1].arg.hasSize /\ last.log[1].arg.pageSize = 1000
    /\ last.log[2].arg.hasSize /\ last.log[2].arg.pageSize = 1000

\* A step that adds a forwarder to the backend: a create request was served.
Creates == Len(forwarders') > Len(forwarders)

\* C21: with a single caller, a backend that starts with at most one forwarder
\* of the default display name and is changed only by these calls, and
\* requests that may each fail with an APIError without effect on the backend,
\* every sequence of get_or_create_forwarder calls for the default name and
\* ingest_log calls without forwarder_id creates at most one forwarder in
\* total: the backend never holds two forwarders of the default display name,
\* and a call creates a forwarder only when the backend holds none of that
\* name, creates exactly one, of that name, and removes none.
C21_AtMostOneDefaultForwarder ==
    /\ [](Cardinality(DefaultForwarders(forwarders)) <= 1)
    /\ [][ /\ DefaultForwarders(forwarders) \subseteq DefaultForwarders(forwarders')
           /\ SubSeq(forwarders', 1, Len(forwarders)) = forwarders
           /\ Creates =>
                 /\ DefaultForwarders(forwarders) = {}
                 /\ Len(forwarders') = Len(forwarders) + 1
                 /\ DefaultForwarders(forwarders') = {Len(forwarders')} ]_vars

\* A call that started with a cached ID, was refused the get-by-ID, emptied
\* the slot, listed, and found the one forwarder of the default display name
\* again instead of creating a second one.
C21_Witness ==
    /\ last.op \in {"get_or_create_forwarder", "ingest_log"}
    /\ last.pre.cache # None
    /\ Count(last.log, "get") = 1 /\ last.log[1].status # 200
    /\ Count(last.log, "list") >= 1
    /\ Count(last.log, "create") = 0
    /\ last.out = "return"
    /\ Cardinality(DefaultForwarders(forwarders)) = 1

\* C22: whenever a get_or_create_forwarder call for the default name ends by
\* raising (a list or create failure, or a malformed name in the found or
\* created forwarder), the cache slot is empty when the error reaches the
\* caller, whatever the slot held before the call.
C22_RaisedLeavesSlotEmpty ==
    (IsDefaultCall /\ last.out # "return") => cache = None

\* A call that started with a cached ID no forwarder of the default name is
\* served under, created a forwarder whose name is malformed, and raised.
C22_Witness ==
    /\ IsDefaultCall
    /\ last.pre.cache # None
    /\ Count(last.log, "get") = 1
    /\ Count(last.log, "create") = 1 /\ last.log[Len(last.log)].status = 200
    /\ last.out = "ValueError"
    /\ cache = None

=============================================================================
